---- MODULE Spec2Model ----
(***************************************************************************)
(* RBush (src/rbush.js): an R-tree over axis-aligned boxes of a fixed      *)
(* dimension.  The tree is a value: a node is the record                   *)
(*   [children, height, bbox, leaf]                                        *)
(* of the source, the children of a leaf are items, the children of an     *)
(* internal node are nodes.  An item is an object of the caller; it is     *)
(* modelled by its identity (a number), and the default accessor toBBox    *)
(* gives its box.  JS arrays are 0-based, sequences are 1-based: a[i] of   *)
(* the source is a[i + 1] here.                                            *)
(***************************************************************************)
EXTENDS Integers, Sequences, FiniteSets

VARIABLES
    dimension,   \* this._dimension
    __empty__,   \* the process-wide template of the empty box, per dimension
    data,        \* this.data, the root node
    call,        \* the last public call and its arguments
    ret,         \* what that call returned
    threw,       \* that call raised a TypeError (the run ends there)
    splitNode,   \* the node handed to _split
    splitTrace   \* what _chooseSplitAxis and _chooseSplitIndex did with it

vars == <<dimension, __empty__, data, call, ret, threw, splitNode, splitTrace>>

-----------------------------------------------------------------------------
(* Bounds of the model *)

\* insert and remove are called with the items 1 .. NumItems (and with null)
NumItems == 2
\* no call makes the tree hold more than MaxItems item occurrences
MaxItems == 6

-----------------------------------------------------------------------------
(* Values of the language *)

\* JS Infinity; every coordinate of the model is far below it
Infinity == 1000
\* JS undefined / null where a box is expected
undefined == << >>
\* a falsy item (null): insert and remove ignore it
null == 0

Min(a, b) == IF a < b THEN a ELSE b
Max(a, b) == IF a > b THEN a ELSE b

Dims == {2, 3}
Items == 1 .. NumItems

\* the caller's items in two dimensions: [minX, minY, maxX, maxY].  Items 1
\* and 3 are two objects with the same box
Box2 ==
    <<  <<0, 0, 1, 1>>, <<2, 1, 3, 3>>, <<0, 0, 1, 1>>, <<1, 2, 1, 2>>,
        <<3, 0, 3, 0>>, <<0, 3, 2, 3>> >>
\* and in three: [minX, minY, minZ, maxX, maxY, maxZ]
Box3 ==
    <<  <<0, 0, 0, 1, 1, 1>>, <<2, 1, 0, 3, 3, 0>>, <<0, 0, 0, 1, 1, 1>>,
        <<1, 2, 3, 1, 2, 3>>, <<3, 0, 2, 3, 0, 2>>, <<0, 3, 1, 2, 3, 2>> >>

\* the query boxes: one covering every item; one that holds the boxes of
\* items 1 and 3, touches the box of item 2 on its boundary and, in three
\* dimensions, leaves item 4 out by the third coordinate alone; one disjoint
\* from everything
Queries ==
    IF dimension = 2
    THEN { <<0, 0, 3, 3>>, <<0, 0, 2, 2>>, <<5, 5, 6, 6>> }
    ELSE { <<0, 0, 0, 3, 3, 3>>, <<0, 0, 0, 2, 2, 2>>, <<5, 5, 5, 6, 6, 6>> }
CoverQuery == IF dimension = 2 THEN <<0, 0, 3, 3>> ELSE <<0, 0, 0, 3, 3, 3>>

\* the batches handed to load: empty, shorter than minEntries, one leaf, two
\* levels.  Items 3 and 4 enter the tree by load only
Batches ==
    { << >>, <<3>>, <<1, 3>>, <<4, 2, 3>>, <<3, 4, 1, 2, 3>> }

-----------------------------------------------------------------------------
(* Configuration: the constructor, lines 10-29 *)

\* the maxEntries argument of the constructor
maxEntriesArg == 4
_maxEntries == Max(4, maxEntriesArg)
\* Math.ceil(this._maxEntries * 0.4)
_minEntries == Max(2, (4 * _maxEntries + 9) \div 10)

\* toBBox: function (item) { return item; }  -- the item is its own box
toBBox(item) == IF dimension = 2 THEN Box2[item] ELSE Box3[item]
\* compareMin: function (axis, a, b) { return a[axis] - b[axis]; }
compareMin(axis, a, b) == toBBox(a)[axis + 1] - toBBox(b)[axis + 1]
compareNodeMin(axis, a, b) == a.bbox[axis + 1] - b.bbox[axis + 1]

-----------------------------------------------------------------------------
(* Geometry kernel, lines 508-589 *)

EmptyBox(d) == [k \in 1 .. 2 * d |-> IF k <= d THEN Infinity ELSE -Infinity]

\* empty(d): the branch that creates the template returns nothing
emptyReturn(tmpl, d) == IF tmpl[d] = undefined THEN undefined ELSE tmpl[d]
emptyTemplate(tmpl, d) ==
    IF tmpl[d] = undefined THEN [tmpl EXCEPT ![d] = EmptyBox(d)] ELSE tmpl
\* a call of empty(d) once the template exists (every call after the first)
empty(d) == emptyReturn(__empty__, d)

extend(dim, a, b) ==
    [k \in 1 .. 2 * dim |-> IF k <= dim THEN Min(a[k], b[k]) ELSE Max(a[k], b[k])]

RECURSIVE bboxAreaLoop(_, _, _)
bboxAreaLoop(dim, a, i) ==
    IF i = dim THEN 1 ELSE (a[dim + i + 1] - a[i + 1]) * bboxAreaLoop(dim, a, i + 1)
bboxArea(dim, a) == bboxAreaLoop(dim, a, 0)

RECURSIVE bboxMarginLoop(_, _, _)
bboxMarginLoop(dim, a, i) ==
    IF i = dim THEN 0 ELSE (a[dim + i + 1] - a[i + 1]) + bboxMarginLoop(dim, a, i + 1)
bboxMargin(dim, a) == bboxMarginLoop(dim, a, 0)

RECURSIVE enlargedAreaLoop(_, _, _, _)
enlargedAreaLoop(dim, a, b, i) ==
    IF i = dim THEN 1
    ELSE (Max(b[dim + i + 1], a[dim + i + 1]) - Min(b[i + 1], a[i + 1]))
         * enlargedAreaLoop(dim, a, b, i + 1)
enlargedArea(dim, a, b) == enlargedAreaLoop(dim, a, b, 0)

\* area *= Math.max(0, Math.max(b[i], a[i]) - Math.min(b[j], a[j])); stop at 0
RECURSIVE intersectionAreaLoop(_, _, _, _, _)
intersectionAreaLoop(dim, a, b, i, area) ==
    IF i = dim THEN area
    ELSE LET next == area * Max(0, Max(b[i + 1], a[i + 1])
                                   - Min(b[dim + i + 1], a[dim + i + 1]))
         IN  IF next = 0 THEN next ELSE intersectionAreaLoop(dim, a, b, i + 1, next)
intersectionArea(dim, a, b) == intersectionAreaLoop(dim, a, b, 0, 1)

\* contains that wants b strictly inside a
containsStrictly(dim, a, b) ==
    \A i \in 0 .. dim - 1 : ~(a[i + 1] >= b[i + 1] \/ b[dim + i + 1] >= a[dim + i + 1])

contains(dim, a, b) ==
    \A i \in 0 .. dim - 1 : ~(a[i + 1] > b[i + 1] \/ b[dim + i + 1] > a[dim + i + 1])

\* intersects with boxes that only touch taken as disjoint
intersectsStrictly(dim, a, b) ==
    \A i \in 0 .. dim - 1 : ~(a[dim + i + 1] <= b[i + 1] \/ b[dim + i + 1] <= a[i + 1])

intersects(dim, a, b) ==
    \A i \in 0 .. dim - 1 : ~(a[dim + i + 1] < b[i + 1] \/ b[dim + i + 1] < a[i + 1])

-----------------------------------------------------------------------------
(* Nodes *)

childBBox(node, child) == IF node.leaf THEN toBBox(child) ELSE child.bbox

\* min bounding rectangle of node children from k to p-1
RECURSIVE distBBoxLoop(_, _, _, _, _)
distBBoxLoop(dim, node, i, p, bbox) ==
    IF i >= p THEN bbox
    ELSE distBBoxLoop(dim, node, i + 1, p,
                      extend(dim, bbox, childBBox(node, node.children[i + 1])))
distBBox(dim, node, k, p) == distBBoxLoop(dim, node, k, p, empty(dim))

calcBBox(dim, node) ==
    [node EXCEPT !.bbox = distBBox(dim, node, 0, Len(node.children))]

\* the node clear() installs, given the template as it is when clear is called
clearNode(tmpl, d) ==
    [children |-> << >>, height |-> 1, bbox |-> emptyReturn(tmpl, d), leaf |-> TRUE]

Front(s) == SubSeq(s, 1, Len(s) - 1)
Last(s) == s[Len(s)]

\* _all: collect every item below node, with an explicit stack
RECURSIVE _allLoop(_, _)
_allLoop(nodesToSearch, result) ==
    IF nodesToSearch = << >> THEN result
    ELSE LET node == Last(nodesToSearch)
             rest == Front(nodesToSearch)
         IN  IF node.leaf THEN _allLoop(rest, result \o node.children)
             ELSE _allLoop(rest \o node.children, result)
_all(node, result) == _allLoop(<<node>>, result)

all(root) == _all(root, << >>)

-----------------------------------------------------------------------------
(* Query engine, lines 37-91 *)

\* the for loop of search over node.children[i ..]: what it leaves in
\* nodesToSearch and result
RECURSIVE searchChildren(_, _, _, _, _)
searchChildren(bbox, node, i, nodesToSearch, result) ==
    IF i >= Len(node.children) THEN [nodesToSearch |-> nodesToSearch, result |-> result]
    ELSE LET child == node.children[i + 1]
             cb == childBBox(node, child)
         IN  IF intersects(dimension, bbox, cb)
             THEN IF node.leaf
                  THEN searchChildren(bbox, node, i + 1, nodesToSearch,
                                      Append(result, child))
                  ELSE IF contains(dimension, bbox, cb)
                  THEN searchChildren(bbox, node, i + 1, nodesToSearch,
                                      _all(child, result))
                  ELSE searchChildren(bbox, node, i + 1,
                                      Append(nodesToSearch, child), result)
             ELSE searchChildren(bbox, node, i + 1, nodesToSearch, result)

\* the while (node) loop of search
RECURSIVE searchLoop(_, _, _, _)
searchLoop(bbox, node, nodesToSearch, result) ==
    LET r == searchChildren(bbox, node, 0, nodesToSearch, result)
    IN  IF r.nodesToSearch = << >> THEN r.result
        ELSE searchLoop(bbox, Last(r.nodesToSearch), Front(r.nodesToSearch), r.result)

\* search(bbox) with root = this.data, a root whose box is a box
search(root, bbox) ==
    IF ~intersects(dimension, bbox, root.bbox) THEN << >>
    ELSE searchLoop(bbox, root, << >>, << >>)

\* the for loop of collides over node.children[i ..]; visited counts the
\* children it looked at
RECURSIVE collidesChildren(_, _, _, _, _)
collidesChildren(bbox, node, i, nodesToSearch, visited) ==
    IF i >= Len(node.children)
    THEN [hit |-> FALSE, nodesToSearch |-> nodesToSearch, visited |-> visited]
    ELSE LET child == node.children[i + 1]
             cb == childBBox(node, child)
         IN  IF intersects(dimension, bbox, cb)
             THEN IF node.leaf \/ contains(dimension, bbox, cb)
                  THEN [hit |-> TRUE, nodesToSearch |-> nodesToSearch,
                        visited |-> visited + 1]
                  ELSE collidesChildren(bbox, node, i + 1,
                                        Append(nodesToSearch, child), visited + 1)
             ELSE collidesChildren(bbox, node, i + 1, nodesToSearch, visited + 1)

RECURSIVE collidesLoop(_, _, _, _)
collidesLoop(bbox, node, nodesToSearch, visited) ==
    LET r == collidesChildren(bbox, node, 0, nodesToSearch, visited)
    IN  IF r.hit THEN [value |-> TRUE, visited |-> r.visited]
        ELSE IF r.nodesToSearch = << >> THEN [value |-> FALSE, visited |-> r.visited]
        ELSE collidesLoop(bbox, Last(r.nodesToSearch), Front(r.nodesToSearch),
                          r.visited)

\* collides(bbox) with root = this.data, a root whose box is a box
collides(root, bbox) ==
    IF ~intersects(dimension, bbox, root.bbox) THEN [value |-> FALSE, visited |-> 0]
    ELSE collidesLoop(bbox, root, << >>, 0)

-----------------------------------------------------------------------------
(* Split, lines 337-450 *)

\* the comparator _chooseSplitAxis hands to the sort of node.children
compare(node, axis, a, b) ==
    IF node.leaf THEN compareMin(axis, a, b) ELSE compareNodeMin(axis, a, b)

\* Array.prototype.sort is stable: x goes after every element not above it
RECURSIVE sortInsert(_, _, _, _)
sortInsert(node, axis, sorted, x) ==
    IF sorted = << >> THEN <<x>>
    ELSE IF compare(node, axis, Last(sorted), x) <= 0 THEN Append(sorted, x)
    ELSE Append(sortInsert(node, axis, Front(sorted), x), Last(sorted))

RECURSIVE sortLoop(_, _, _, _)
sortLoop(node, axis, i, sorted) ==
    IF i >= Len(node.children) THEN sorted
    ELSE sortLoop(node, axis, i + 1, sortInsert(node, axis, sorted, node.children[i + 1]))

\* node.children.sort(compare.bind(node.children, axis))
sortChildren(node, axis) == [node EXCEPT !.children = sortLoop(node, axis, 0, << >>)]

\* the first loop of _allDistMargin: leftBBox grows over children m .. M-m-1
RECURSIVE leftMarginLoop(_, _, _, _, _)
leftMarginLoop(node, i, last, leftBBox, margin) ==
    IF i > last THEN margin
    ELSE LET b == extend(dimension, leftBBox, childBBox(node, node.children[i + 1]))
         IN  leftMarginLoop(node, i + 1, last, b, margin + bboxMargin(dimension, b))

\* the second loop: rightBBox grows over children M-m-1 down to m
RECURSIVE rightMarginLoop(_, _, _, _, _)
rightMarginLoop(node, i, first, rightBBox, margin) ==
    IF i < first THEN margin
    ELSE LET b == extend(dimension, rightBBox, childBBox(node, node.children[i + 1]))
         IN  rightMarginLoop(node, i - 1, first, b, margin + bboxMargin(dimension, b))

\* the two loops of _allDistMargin, started from leftBBox and rightBBox
allDistMarginLoops(node, m, M, leftBBox, rightBBox) ==
    rightMarginLoop(node, M - m - 1, m, rightBBox,
        leftMarginLoop(node, m, M - m - 1, leftBBox,
            bboxMargin(dimension, leftBBox) + bboxMargin(dimension, rightBBox)))

\* _allDistMargin after its sort: node is the node as sorted by the axis
_allDistMargin(node, m, M) ==
    allDistMarginLoops(node, m, M, distBBox(dimension, node, 0, m),
                       distBBox(dimension, node, M - m, M))

\* Math.Infinity: Math has no such property
MathInfinity == undefined
\* margin <= bestMargin, where bestMargin is undefined or <<a number>>:
\* a comparison with undefined is false
marginLessEq(margin, bestMargin) ==
    IF bestMargin = undefined THEN FALSE ELSE margin <= bestMargin[1]

\* the for loop of _chooseSplitAxis from axis a on: sorted is the node as
\* _allDistMargin sorted it for axis a, margin what it returned
RECURSIVE chooseSplitAxisLoop(_, _, _, _, _, _, _)
chooseSplitAxisStep(sorted, m, M, a, bestAxis, bestMargin, margins, margin) ==
    chooseSplitAxisLoop(sorted, m, M, a + 1,
                        IF marginLessEq(margin, bestMargin) THEN a ELSE bestAxis,
                        IF marginLessEq(margin, bestMargin) THEN <<margin>>
                        ELSE bestMargin,
                        Append(margins, margin))

allDistMarginOf(sorted, m, M, a, bestAxis, bestMargin, margins) ==
    chooseSplitAxisStep(sorted, m, M, a, bestAxis, bestMargin, margins,
                        _allDistMargin(sorted, m, M))

chooseSplitAxisLoop(node, m, M, a, bestAxis, bestMargin, margins) ==
    IF ~(a < dimension)
    THEN [node |-> node, a |-> a, bestAxis |-> bestAxis, margins |-> margins]
    ELSE allDistMarginOf(sortChildren(node, a), m, M, a, bestAxis, bestMargin,
                         margins)

\* the end of _chooseSplitAxis: if (a < this._dimension) sort by bestAxis
chooseSplitAxisEnd(r) ==
    [node     |-> IF r.a < dimension THEN sortChildren(r.node, r.bestAxis)
                  ELSE r.node,
     bestAxis |-> r.bestAxis,
     margins  |-> r.margins]

\* _chooseSplitAxis: the node as it leaves, the axis chosen, the margins seen
_chooseSplitAxis(node, m, M) ==
    chooseSplitAxisEnd(chooseSplitAxisLoop(node, m, M, 0, 0, MathInfinity, << >>))

\* the for loop of _chooseSplitIndex from i on; index 0 stands for undefined
RECURSIVE chooseSplitIndexLoop(_, _, _, _, _, _, _)
chooseSplitIndexStep(node, m, M, i, minOverlap, minArea, index, overlap, area) ==
    IF overlap < minOverlap
    THEN chooseSplitIndexLoop(node, m, M, i + 1, overlap,
                              IF area < minArea THEN area ELSE minArea, i)
    ELSE IF overlap = minOverlap /\ area < minArea
    THEN chooseSplitIndexLoop(node, m, M, i + 1, minOverlap, area, i)
    ELSE chooseSplitIndexLoop(node, m, M, i + 1, minOverlap, minArea, index)

chooseSplitIndexBoxes(node, m, M, i, minOverlap, minArea, index, bbox1, bbox2) ==
    chooseSplitIndexStep(node, m, M, i, minOverlap, minArea, index,
                         intersectionArea(dimension, bbox1, bbox2),
                         bboxArea(dimension, bbox1) + bboxArea(dimension, bbox2))

chooseSplitIndexLoop(node, m, M, i, minOverlap, minArea, index) ==
    IF i > M - m THEN index
    ELSE chooseSplitIndexBoxes(node, m, M, i, minOverlap, minArea, index,
                               distBBox(dimension, node, 0, i),
                               distBBox(dimension, node, i, M))

_chooseSplitIndex(node, m, M) ==
    chooseSplitIndexLoop(node, m, M, m, Infinity, Infinity, 0)

\* the cut of _split: node keeps children 0 .. splitIndex-1, newNode gets the
\* rest, both boxes are computed afresh
splitAt(node, splitIndex) ==
    [node    |-> calcBBox(dimension,
                          [node EXCEPT !.children = SubSeq(@, 1, splitIndex)]),
     newNode |-> calcBBox(dimension,
                          [children |-> SubSeq(node.children, splitIndex + 1,
                                               Len(node.children)),
                           height   |-> node.height,
                           bbox     |-> undefined,
                           leaf     |-> node.leaf])]

\* _split once _chooseSplitAxis has left node as it wants it
splitSorted(node, m, M) == splitAt(node, _chooseSplitIndex(node, m, M))

\* _split up to the point where newNode is handed to the parent
_split(node) ==
    splitSorted(_chooseSplitAxis(node, _minEntries, Len(node.children)).node,
                _minEntries, Len(node.children))

\* _splitRoot with the new root given the height of the node it replaces
splitRootSameHeight(node, newNode) ==
    calcBBox(dimension, [children |-> <<node, newNode>>,
                         height   |-> node.height,
                         bbox     |-> undefined,
                         leaf     |-> FALSE])

_splitRoot(node, newNode) ==
    calcBBox(dimension, [children |-> <<node, newNode>>,
                         height   |-> node.height + 1,
                         bbox     |-> undefined,
                         leaf     |-> FALSE])

-----------------------------------------------------------------------------
(* Insertion, lines 274-334 and 452-457 *)

\* the for loop of _chooseSubtree over node.children[i ..]; targetNode is the
\* position of the child chosen so far (0: none yet)
RECURSIVE chooseChildLoop(_, _, _, _, _, _)
chooseChildLoop(bbox, node, i, minArea, minEnlargement, targetNode) ==
    IF i >= Len(node.children) THEN targetNode
    ELSE LET child       == node.children[i + 1]
             area        == bboxArea(dimension, child.bbox)
             enlargement == enlargedArea(dimension, bbox, child.bbox) - area
         IN  IF enlargement < minEnlargement
             THEN chooseChildLoop(bbox, node, i + 1,
                                  IF area < minArea THEN area ELSE minArea,
                                  enlargement, i + 1)
             ELSE IF enlargement = minEnlargement /\ area < minArea
             THEN chooseChildLoop(bbox, node, i + 1, area, minEnlargement, i + 1)
             ELSE chooseChildLoop(bbox, node, i + 1, minArea, minEnlargement,
                                  targetNode)

\* the while (true) loop of _chooseSubtree.  The path is kept as the positions
\* of the children taken from the root down: path.length - 1 = Len(path) here
RECURSIVE chooseSubtreeLoop(_, _, _, _)
chooseSubtreeLoop(bbox, node, level, path) ==
    IF node.leaf \/ Len(path) = level THEN path
    ELSE LET targetNode == chooseChildLoop(bbox, node, 0, Infinity, Infinity, 0)
         IN  chooseSubtreeLoop(bbox, node.children[targetNode], level,
                               Append(path, targetNode))

_chooseSubtree(bbox, node, level) == chooseSubtreeLoop(bbox, node, level, << >>)

\* _adjustParentBBoxes with its loop left out: the path keeps its old boxes
adjustParentBBoxesSkipped(bbox, node) == node

\* _adjustParentBBoxes, for one node of the path
_adjustParentBBoxes(bbox, node) == [node EXCEPT !.bbox = extend(dimension, @, bbox)]

\* insertLevel with the overflow test off by one: a node of maxEntries + 1
\* children is left as it is
insertLevelLateSplit(node1, reached, bbox) ==
    IF reached /\ Len(node1.children) > _maxEntries + 1
    THEN [split |-> <<_split(node1)>>, node |-> node1]
    ELSE [split |-> << >>, node |-> _adjustParentBBoxes(bbox, node1)]

\* the while (level >= 0) loop of _insert at one level of the path, then
\* _adjustParentBBoxes there: node1 is the node with what was pushed to it,
\* reached says that the loop got to this level.  Gives the node as _insert
\* leaves it and, if it was split, the sibling its split made
insertLevel(node1, reached, bbox) ==
    IF reached /\ Len(node1.children) > _maxEntries
    THEN [split |-> <<_split(node1)>>, node |-> node1]
    ELSE [split |-> << >>, node |-> _adjustParentBBoxes(bbox, node1)]

\* a level above the target: below is what insertLevel gave for the child
insertAbove(node, i, below, bbox) ==
    IF below.split = << >>
    THEN insertLevel([node EXCEPT !.children[i] = below.node], FALSE, bbox)
    ELSE insertLevel([node EXCEPT !.children =
                          Append([@ EXCEPT ![i] = below.split[1].node],
                                 below.split[1].newNode)],
                     TRUE, bbox)

\* _insert below the root: node is insertPath[d], path what is left of the way
\* down to the node that takes the item
RECURSIVE insertAt(_, _, _, _)
insertAt(node, path, item, bbox) ==
    IF path = << >>
    THEN \* node.children.push(item); extend(node.bbox, bbox)
         insertLevel([node EXCEPT !.children = Append(@, item),
                                  !.bbox = extend(dimension, @, bbox)],
                     TRUE, bbox)
    ELSE insertAbove(node, Head(path),
                     insertAt(node.children[Head(path)], Tail(path), item, bbox),
                     bbox)

\* the root after the loop: a split root goes through _splitRoot
insertRoot(r) ==
    IF r.split = << >> THEN r.node
    ELSE _splitRoot(r.split[1].node, r.split[1].newNode)

\* lines 321-322 alone: the push and the extend at the end of the path
RECURSIVE pushAt(_, _, _, _)
pushAt(node, path, item, bbox) ==
    IF path = << >>
    THEN [node EXCEPT !.children = Append(@, item), !.bbox = extend(dimension, @, bbox)]
    ELSE [node EXCEPT !.children[Head(path)] = pushAt(@, Tail(path), item, bbox)]

\* _insert once the box and the path are known
insertOn(root, item, level, bbox, path) ==
    IF path = << >> /\ root.bbox = undefined
    THEN \* line 321 pushed the item, extend reads undefined[0]
         [data |-> [root EXCEPT !.children = Append(@, item)], threw |-> TRUE]
    ELSE IF Len(path) # level
    THEN \* the item is pushed, then insertPath[level] is undefined
         [data |-> pushAt(root, path, item, bbox), threw |-> TRUE]
    ELSE [data |-> insertRoot(insertAt(root, path, item, bbox)), threw |-> FALSE]

insertBox(root, item, level, bbox) ==
    insertOn(root, item, level, bbox, _chooseSubtree(bbox, root, level))

\* _insert(item, level, isNode) with root = this.data: the new this.data, and
\* whether a TypeError was raised on the way (then data is as the throw left it)
_insert(root, item, level, isNode) ==
    insertBox(root, item, level, IF isNode THEN item.bbox ELSE toBBox(item))

-----------------------------------------------------------------------------
(* Partial-sort selector, lines 594-658 *)

\* swap without its tmp: arr[i] is overwritten before it is copied
swapWithoutTmp(arr, i, j) == [arr EXCEPT ![i + 1] = arr[j + 1], ![j + 1] = arr[j + 1]]

swap(arr, i, j) == [arr EXCEPT ![i + 1] = arr[j + 1], ![j + 1] = arr[i + 1]]

\* while (compare(axis, arr[i], t) < 0) i++
RECURSIVE scanUp(_, _, _, _)
scanUp(arr, i, t, axis) ==
    IF compareMin(axis, arr[i + 1], t) < 0 THEN scanUp(arr, i + 1, t, axis) ELSE i

\* while (compare(axis, arr[j], t) > 0) j--
RECURSIVE scanDown(_, _, _, _)
scanDown(arr, j, t, axis) ==
    IF compareMin(axis, arr[j + 1], t) > 0 THEN scanDown(arr, j - 1, t, axis) ELSE j

\* while (i < j) { swap; i++; j--; the two scans }
RECURSIVE partitionLoop(_, _, _, _, _)
partitionLoop(arr, i, j, t, axis) ==
    IF ~(i < j) THEN [arr |-> arr, i |-> i, j |-> j]
    ELSE LET arr1 == swap(arr, i, j)
         IN  partitionLoop(arr1, scanUp(arr1, i + 1, t, axis),
                           scanDown(arr1, j - 1, t, axis), t, axis)

\* select: Floyd-Rivest.  The narrowing step is taken for ranges of more than
\* 600 elements only, and no batch of the model is that long
RECURSIVE select(_, _, _, _, _)
select(arr, left, right, k, axis) ==
    IF ~(right > left) THEN arr
    ELSE LET t    == arr[k + 1]
             arr1 == swap(arr, left, k)
             arr2 == IF compareMin(axis, arr1[right + 1], t) > 0
                     THEN swap(arr1, left, right) ELSE arr1
             p    == partitionLoop(arr2, left, right, t, axis)
             same == compareMin(axis, p.arr[left + 1], t) = 0
             j    == IF same THEN p.j ELSE p.j + 1
             arr3 == IF same THEN swap(p.arr, left, j) ELSE swap(p.arr, j, right)
         IN  select(arr3, IF j <= k THEN j + 1 ELSE left,
                    IF k <= j THEN j - 1 ELSE right, k, axis)

\* Math.ceil(a / b) for a >= 0, b > 0
CeilDiv(a, b) == (a + b - 1) \div b

\* the while (stack.length) loop of multiSelect
RECURSIVE multiSelectLoop(_, _, _, _)
multiSelectLoop(arr, stack, n, axis) ==
    IF stack = << >> THEN arr
    ELSE LET right == stack[Len(stack)]
             left  == stack[Len(stack) - 1]
             rest  == SubSeq(stack, 1, Len(stack) - 2)
         IN  IF right - left <= n THEN multiSelectLoop(arr, rest, n, axis)
             ELSE LET mid == left + CeilDiv(right - left, 2 * n) * n
                  IN  multiSelectLoop(select(arr, left, right, mid, axis),
                                      rest \o <<left, mid, mid, right>>, n, axis)

multiSelect(arr, left, right, n, axis) == multiSelectLoop(arr, <<left, right>>, n, axis)

-----------------------------------------------------------------------------
(* Bulk loader, lines 93-127 and 215-272 *)

RECURSIVE Pow(_, _)
Pow(b, e) == IF e = 0 THEN 1 ELSE b * Pow(b, e - 1)

\* Math.ceil(Math.log(N) / Math.log(M)), from h on
RECURSIVE CeilLogFrom(_, _, _)
CeilLogFrom(N, M, h) == IF Pow(M, h) >= N THEN h ELSE CeilLogFrom(N, M, h + 1)
CeilLog(N, M) == CeilLogFrom(N, M, 0)

\* Math.ceil(Math.sqrt(M)), from s on
RECURSIVE CeilSqrtFrom(_, _)
CeilSqrtFrom(M, s) == IF s * s >= M THEN s ELSE CeilSqrtFrom(M, s + 1)
CeilSqrt(M) == CeilSqrtFrom(M, 0)

\* _build and its inner function buildAxis.  items is sorted in place as the
\* tiling goes, so every step hands on the array with the node(s) it built
RECURSIVE _build(_, _, _, _)
RECURSIVE buildAxis(_, _, _, _, _, _, _, _)
RECURSIVE buildAxisLoop(_, _, _, _, _, _, _, _)

\* the for loop of buildAxis from i on; children is node.children
buildAxisLoop(items, children, axis, i, right, N1, N2, height) ==
    IF ~(i <= right) THEN [items |-> items, children |-> children]
    ELSE LET newRight == Min(i + N1 - 1, right)
             r == IF axis + 1 < dimension
                  THEN buildAxis(items, children, axis + 1, i, newRight, N2, N1, height)
                  ELSE LET b == _build(items, i, newRight, height - 1)
                       IN  [items |-> b.items, children |-> Append(children, b.node)]
         IN  buildAxisLoop(r.items, r.children, axis, i + N1, right, N1, N2, height)

buildAxis(items, children, axis, left, right, N1, N2, height) ==
    buildAxisLoop(multiSelect(items, left, right, N1, axis), children, axis,
                  left, right, N1, N2, height)

_build(items, left, right, height0) ==
    LET N == right - left + 1
        M0 == _maxEntries
    IN  IF N <= M0
        THEN [items |-> items,
              node  |-> calcBBox(dimension,
                                 [children |-> SubSeq(items, left + 1, right + 1),
                                  height |-> 1, bbox |-> undefined, leaf |-> TRUE])]
        ELSE LET height == IF height0 = 0 THEN CeilLog(N, M0) ELSE height0
                 M  == IF height0 = 0 THEN CeilDiv(N, Pow(M0, height - 1)) ELSE M0
                 N2 == CeilDiv(N, M)
                 N1 == N2 * CeilSqrt(M)
                 r  == buildAxis(items, << >>, 0, left, right, N1, N2, height)
             IN  [items |-> r.items,
                  node  |-> calcBBox(dimension,
                                     [children |-> r.children, height |-> height,
                                      bbox |-> undefined, leaf |-> FALSE])]

\* insert(item) with root = this.data
insert(root, item) ==
    IF item # null THEN _insert(root, item, root.height - 1, FALSE)
    ELSE [data |-> root, threw |-> FALSE]

\* the loop of load for a batch shorter than minEntries; a throw ends it
RECURSIVE loadInsertLoop(_, _, _)
loadInsertLoop(root, batch, i) ==
    IF i >= Len(batch) THEN [data |-> root, threw |-> FALSE]
    ELSE LET r == insert(root, batch[i + 1])
         IN  IF r.threw THEN r ELSE loadInsertLoop(r.data, batch, i + 1)

\* load(data) with root = this.data and batch = data
load(root, batch) ==
    IF Len(batch) = 0 THEN [data |-> root, threw |-> FALSE]
    ELSE IF Len(batch) < _minEntries THEN loadInsertLoop(root, batch, 0)
    ELSE LET node == _build(batch, 0, Len(batch) - 1, 0).node
         IN  IF Len(root.children) = 0 THEN [data |-> node, threw |-> FALSE]
             ELSE IF root.height = node.height
             THEN [data |-> _splitRoot(root, node), threw |-> FALSE]
             ELSE IF root.height < node.height
             THEN _insert(node, root, node.height - root.height - 1, TRUE)
             ELSE _insert(root, node, root.height - node.height - 1, TRUE)

-----------------------------------------------------------------------------
(* Deletion, lines 144-191 and 459-471 *)

RECURSIVE nodeAt(_, _)
nodeAt(node, pos) ==
    IF pos = << >> THEN node ELSE nodeAt(node.children[Head(pos)], Tail(pos))

\* indexOf that compares the boxes of the items, not the items
RECURSIVE indexOfEqualBox(_, _, _)
indexOfEqualBox(children, item, i) ==
    IF i > Len(children) THEN 0
    ELSE IF toBBox(children[i]) = toBBox(item) THEN i
    ELSE indexOfEqualBox(children, item, i + 1)

\* node.children.indexOf(item), from position i on; 0 stands for -1
RECURSIVE indexOf(_, _, _)
indexOf(children, item, i) ==
    IF i > Len(children) THEN 0
    ELSE IF children[i] = item THEN i ELSE indexOf(children, item, i + 1)

\* the while (node || path.length) loop of remove.  pos gives the place of
\* `node` by the positions taken from the root: its front is `path` with
\* `indexes`, its last entry is i; `node` is undefined when that entry is past
\* the end of the parent's children
RECURSIVE removeLoop(_, _, _, _)
removeLoop(root, item, bbox, pos) ==
    LET right(p) == Append(Front(p), Last(p) + 1)
        isNode == pos = << >> \/ Last(pos) <= Len(nodeAt(root, Front(pos)).children)
        node == nodeAt(root, pos)
    IN  IF ~isNode
        THEN \* go up: node = path.pop(), goingUp = true; then go right, or stop
             IF Front(pos) # << >> THEN removeLoop(root, item, bbox, right(Front(pos)))
             ELSE [found |-> FALSE, path |-> << >>, index |-> 0]
        ELSE IF node.leaf /\ indexOf(node.children, item, 1) # 0
        THEN [found |-> TRUE, path |-> pos, index |-> indexOf(node.children, item, 1)]
        ELSE IF ~node.leaf /\ contains(dimension, node.bbox, bbox)
        THEN \* go down
             removeLoop(root, item, bbox, Append(pos, 1))
        ELSE IF pos # << >>
        THEN \* go right
             removeLoop(root, item, bbox, right(pos))
        ELSE [found |-> FALSE, path |-> << >>, index |-> 0]

removeAt(s, i) == SubSeq(s, 1, i - 1) \o SubSeq(s, i + 1, Len(s))

\* condenseAt that leaves an emptied node in its parent
RECURSIVE condenseAtKeepEmpty(_, _, _)
condenseAtKeepEmpty(node, pos, index) ==
    IF pos = << >>
    THEN IF Len(node.children) = 1 THEN [node EXCEPT !.children = << >>]
         ELSE calcBBox(dimension, [node EXCEPT !.children = removeAt(@, index)])
    ELSE calcBBox(dimension,
                  [node EXCEPT !.children[Head(pos)] =
                       condenseAtKeepEmpty(@, Tail(pos), index)])

\* the splice of the item and _condense below the root: node is path[d], pos
\* the rest of the way to the leaf.  A node left without children keeps its
\* box; its parent drops it
RECURSIVE condenseAt(_, _, _)
condenseAt(node, pos, index) ==
    LET child == condenseAt(node.children[Head(pos)], Tail(pos), index)
        node1 ==
            IF pos = << >>
            THEN [node EXCEPT !.children = removeAt(@, index)]
            ELSE IF Len(child.children) = 0
            THEN [node EXCEPT !.children = removeAt(@, Head(pos))]
            ELSE [node EXCEPT !.children[Head(pos)] = child]
    IN  IF Len(node1.children) = 0 THEN node1 ELSE calcBBox(dimension, node1)

\* _condense(path) after the splice, with root = this.data
_condense(root, pos, index) ==
    LET node == condenseAt(root, pos, index)
    IN  IF Len(node.children) = 0 THEN clearNode(__empty__, dimension) ELSE node

\* remove once the traversal has ended
removeFound(root, r) ==
    IF r.found THEN [data |-> _condense(root, r.path, r.index), found |-> TRUE]
    ELSE [data |-> root, found |-> FALSE]

\* remove(item) with root = this.data: the new this.data, and whether the
\* traversal found the item (index !== -1 at line 166)
remove(root, item) ==
    IF item = null THEN [data |-> root, found |-> FALSE]
    ELSE removeFound(root, removeLoop(root, item, toBBox(item), << >>))

-----------------------------------------------------------------------------
(* The public calls on one tree *)

NoSplit == [step |-> "none"]

\* new rbush(maxEntriesArg, undefined, d), the first tree of the process for
\* its dimension: the constructor's clear() is the first call of empty(d)
Init ==
    /\ dimension \in Dims
    /\ LET fresh == [d \in Dims |-> undefined]
       IN  /\ data = clearNode(fresh, dimension)
           /\ __empty__ = emptyTemplate(fresh, dimension)
    /\ call = [op |-> "new"]
    /\ ret = "this"
    /\ threw = FALSE
    /\ splitNode = NoSplit
    /\ splitTrace = NoSplit

\* a tree whose root box is the empty box: a tree made when the template of its
\* dimension exists (a second tree, or the first one after clear())
InitCleared ==
    /\ dimension \in Dims
    /\ LET fresh == [d \in Dims |-> undefined]
           made == emptyTemplate(fresh, dimension)
       IN  /\ data = clearNode(made, dimension)
           /\ __empty__ = emptyTemplate(made, dimension)
    /\ call = [op |-> "clear"]
    /\ ret = "this"
    /\ threw = FALSE
    /\ splitNode = NoSplit
    /\ splitTrace = NoSplit

Size(root) == Len(all(root))

Insert ==
    /\ ~threw
    /\ \E item \in Items \cup {null} :
        /\ Size(data) < MaxItems
        /\ \E r \in {insert(data, item)} :
               /\ data' = r.data
               /\ threw' = r.threw
               /\ call' = [op |-> "insert", item |-> item]
               /\ ret' = IF r.threw THEN "TypeError" ELSE "this"
    /\ UNCHANGED <<dimension, __empty__, splitNode, splitTrace>>

Load ==
    /\ ~threw
    /\ \E batch \in Batches :
        /\ Size(data) + Len(batch) <= MaxItems
        /\ \E r \in {load(data, batch)} :
               /\ data' = r.data
               /\ threw' = r.threw
               /\ call' = [op |-> "load", batch |-> batch]
               /\ ret' = IF r.threw THEN "TypeError" ELSE "this"
    /\ UNCHANGED <<dimension, __empty__, splitNode, splitTrace>>

Remove ==
    /\ ~threw
    /\ \E item \in Items \cup {null} :
        /\ \E r \in {remove(data, item)} :
               /\ data' = r.data
               /\ call' = [op |-> "remove", item |-> item, found |-> r.found]
               /\ ret' = "this"
    /\ UNCHANGED <<dimension, __empty__, threw, splitNode, splitTrace>>

\* search reads node.bbox of the root first: undefined[i] is a TypeError
Search ==
    /\ ~threw
    /\ \E bbox \in Queries :
        /\ call' = [op |-> "search", bbox |-> bbox]
        /\ threw' = (data.bbox = undefined)
        /\ ret' = IF data.bbox = undefined THEN "TypeError" ELSE search(data, bbox)
    /\ UNCHANGED <<dimension, __empty__, data, splitNode, splitTrace>>

Collides ==
    /\ ~threw
    /\ \E bbox \in Queries :
        /\ call' = [op |-> "collides", bbox |-> bbox]
        /\ threw' = (data.bbox = undefined)
        /\ ret' = IF data.bbox = undefined THEN "TypeError" ELSE collides(data, bbox)
    /\ UNCHANGED <<dimension, __empty__, data, splitNode, splitTrace>>

All ==
    /\ ~threw
    /\ call' = [op |-> "all"]
    /\ ret' = all(data)
    /\ UNCHANGED <<dimension, __empty__, data, threw, splitNode, splitTrace>>

Clear ==
    /\ ~threw
    /\ data' = clearNode(__empty__, dimension)
    /\ __empty__' = emptyTemplate(__empty__, dimension)
    /\ call' = [op |-> "clear"]
    /\ ret' = "this"
    /\ UNCHANGED <<dimension, threw, splitNode, splitTrace>>

Next == Insert \/ Load \/ Remove \/ Search \/ Collides \/ All \/ Clear

\* the first tree of the process
Spec == Init /\ [][Next]_vars
\* a tree that starts with the empty box as its root box
SpecCleared == InitCleared /\ [][Next]_vars

-----------------------------------------------------------------------------
(* _split alone, step by step, on a leaf that has just overflowed *)

\* every item a call of the model can put into the tree
AllItems == Items \cup UNION {{b[i] : i \in DOMAIN b} : b \in Batches}

\* the root leaf as _insert finds it at line 326 when the item pushed at
\* line 321 is one too many: maxEntries + 1 items in the order of their insert
InitSplit ==
    /\ dimension \in Dims
    /\ LET fresh == [d \in Dims |-> undefined]
           made == emptyTemplate(fresh, dimension)
       IN  /\ data = clearNode(made, dimension)
           /\ __empty__ = emptyTemplate(made, dimension)
    /\ call = [op |-> "insert"]
    /\ ret = "this"
    /\ threw = FALSE
    /\ splitNode \in
          { calcBBox(dimension, [children |-> c, height |-> 1,
                                 bbox |-> undefined, leaf |-> TRUE]) :
                c \in [1 .. _maxEntries + 1 -> AllItems] }
    /\ splitTrace = NoSplit

\* line 343: this._chooseSplitAxis(node, m, M)
ChooseSplitAxis ==
    /\ splitTrace.step = "none"
    /\ \E r \in {_chooseSplitAxis(splitNode, _minEntries, Len(splitNode.children))} :
          /\ splitNode' = r.node
          /\ splitTrace' = [step |-> "axis", bestAxis |-> r.bestAxis,
                            margins |-> r.margins, splitIndex |-> 0]
    /\ UNCHANGED <<dimension, __empty__, data, call, ret, threw>>

\* line 345: var splitIndex = this._chooseSplitIndex(node, m, M)
ChooseSplitIndex ==
    /\ splitTrace.step = "axis"
    /\ splitTrace' =
          [splitTrace EXCEPT !.step = "index",
                             !.splitIndex = _chooseSplitIndex(
                                 splitNode, _minEntries, Len(splitNode.children))]
    /\ UNCHANGED <<dimension, __empty__, data, call, ret, threw, splitNode>>

\* lines 347-357: the node is cut in two at splitIndex
SplitCut ==
    /\ splitTrace.step = "index"
    /\ splitNode' = splitAt(splitNode, splitTrace.splitIndex)
    /\ splitTrace' = [splitTrace EXCEPT !.step = "cut"]
    /\ UNCHANGED <<dimension, __empty__, data, call, ret, threw>>

NextSplit == ChooseSplitAxis \/ ChooseSplitIndex \/ SplitCut

SpecSplit == InitSplit /\ [][NextSplit]_vars

-----------------------------------------------------------------------------
(* The descent of _insert, looked at before the item is pushed *)

\* the boxes a descent is made for: the box of an item insert() is given, or
\* the box of the subtree load() inserts at a level above the leaves
ChooseBoxes == {toBBox(item) : item \in DOMAIN Box2}

\* line 318: var node = this._chooseSubtree(bbox, this.data, level, insertPath)
\* with level = this.data.height - 1 for an item (line 130) and a level above
\* that for a subtree (line 123); ret is the path as the child positions taken
ChooseSubtree ==
    /\ ~threw
    /\ \E bbox \in ChooseBoxes, level \in 0 .. data.height - 1 :
          /\ ret' = _chooseSubtree(bbox, data, level)
          /\ call' = [op |-> "_chooseSubtree", bbox |-> bbox, level |-> level]
    /\ UNCHANGED <<dimension, __empty__, data, threw, splitNode, splitTrace>>

NextChoose == Insert \/ Load \/ Remove \/ ChooseSubtree

SpecChoose == InitCleared /\ [][NextChoose]_vars

-----------------------------------------------------------------------------
(* What the properties speak of *)

Range(s) == {s[i] : i \in DOMAIN s}

\* every node of the tree below and including node
RECURSIVE NodesOf(_)
NodesOf(node) ==
    IF node.leaf THEN {node}
    ELSE {node} \cup UNION {NodesOf(node.children[i]) : i \in DOMAIN node.children}

\* every node other than the root
NonRootNodes(root) ==
    IF root.leaf THEN {}
    ELSE UNION {NodesOf(root.children[i]) : i \in DOMAIN root.children}

\* the depths at which the leaves below node lie, node being at depth d
RECURSIVE LeafDepths(_, _)
LeafDepths(node, d) ==
    IF node.leaf THEN {d}
    ELSE UNION {LeafDepths(node.children[i], d + 1) : i \in DOMAIN node.children}

\* the union of the boxes of the children of a node that has children
UnionBox(node) ==
    LET boxes == {childBBox(node, node.children[i]) : i \in DOMAIN node.children}
    IN  [k \in 1 .. 2 * dimension |->
            IF k <= dimension
            THEN CHOOSE v \in {b[k] : b \in boxes} : \A b \in boxes : v <= b[k]
            ELSE CHOOSE v \in {b[k] : b \in boxes} : \A b \in boxes : v >= b[k]]

\* how often x occurs in a sequence
RECURSIVE CountSeq(_, _)
CountSeq(s, x) ==
    IF s = << >> THEN 0
    ELSE (IF Head(s) = x THEN 1 ELSE 0) + CountSeq(Tail(s), x)

\* how often item x is stored below node
RECURSIVE Stored(_, _)
Stored(node, x) ==
    IF node.leaf THEN CountSeq(node.children, x)
    ELSE LET below == [i \in DOMAIN node.children |-> Stored(node.children[i], x)]
             sum[i \in 0 .. Len(below)] == IF i = 0 THEN 0 ELSE sum[i - 1] + below[i]
         IN  sum[Len(below)]

\* two boxes share a point, their boundaries included
Touch(a, q) ==
    \A i \in 1 .. dimension :
        ~(a[dimension + i] < q[i] \/ q[dimension + i] < a[i])

-----------------------------------------------------------------------------
(* C1: in every state of a tree that started with the empty box as its root
   box -- after every insert, load, remove (and clear) -- every node that has
   at least one child has a bbox equal to the union of its children's boxes:
   item boxes in a leaf, child.bbox in an internal node. *)
C1_BBoxExact ==
    \A node \in NodesOf(data) :
        Len(node.children) > 0 => node.bbox = UnionBox(node)

\* a load has merged a subtree into a tree whose root was split by it
C1_Witness ==
    /\ call.op = "load"
    /\ data.height = 3
    /\ \E node \in NonRootNodes(data) : ~node.leaf /\ Len(node.children) >= 2

(* C2 as stated: every node other than the root holds at least minEntries and
   at most maxEntries children. *)
C2_FillAsStated ==
    \A node \in NonRootNodes(data) :
        _minEntries <= Len(node.children) /\ Len(node.children) <= _maxEntries

(* C2, amended: every node other than the root holds at least one and at most
   maxEntries children. *)
C2_Fill ==
    \A node \in NonRootNodes(data) :
        1 <= Len(node.children) /\ Len(node.children) <= _maxEntries

\* a remove has left a leaf below minEntries, beside a full one
C2_Witness ==
    /\ call.op = "remove"
    /\ call.found
    /\ \E node \in NonRootNodes(data) : Len(node.children) < _minEntries
    /\ \E node \in NonRootNodes(data) : Len(node.children) = _maxEntries

(* C3: all leaves are at the same depth, a node is a leaf exactly when its
   height is 1, and every child of an internal node of height h has height
   h - 1. *)
C3_Balance ==
    /\ Cardinality(LeafDepths(data, 0)) = 1
    /\ \A node \in NodesOf(data) :
        /\ node.leaf <=> node.height = 1
        /\ ~node.leaf =>
              \A i \in DOMAIN node.children :
                  node.children[i].height = node.height - 1

\* a load has built a tree taller than the one it met, and the old root has
\* gone into it as a subtree
C3_Witness ==
    /\ call.op = "load"
    /\ Len(call.batch) > _maxEntries
    /\ Len(all(data)) > Len(call.batch)
    /\ data.height = 2

(* C4: search(q) returns exactly the stored items whose box intersects q,
   boundaries included, each stored occurrence once, in dimension 2 and in
   dimension 3; and right after insert(x), search(toBBox(x)) contains x. *)
C4_Search ==
    /\ call.op = "search" =>
          \A x \in AllItems :
              CountSeq(ret, x) =
                  IF Touch(toBBox(x), call.bbox) THEN Stored(data, x) ELSE 0
    /\ (call.op = "insert" /\ call.item # null) =>
          CountSeq(search(data, toBBox(call.item)), call.item) >= 1

\* a search in three dimensions of a tree of several levels that returned some
\* of the items and not all
C4_Witness ==
    /\ dimension = 3
    /\ call.op = "search"
    /\ data.height >= 2
    /\ Len(ret) > 0
    /\ Len(ret) < Len(all(data))

(* C5: insert(x) makes all() the previous all() plus one occurrence of x (and
   changes nothing for a falsy x), load(items) makes all() the previous all()
   plus the batch, as multisets; and a search with a box that covers every
   item then returns the same multiset as all(). *)
C5_Complete ==
    [][ /\ call'.op = "insert" =>
              \A x \in AllItems :
                  CountSeq(all(data'), x) =
                      CountSeq(all(data), x) + (IF x = call'.item THEN 1 ELSE 0)
        /\ call'.op = "load" =>
              \A x \in AllItems :
                  CountSeq(all(data'), x) =
                      CountSeq(all(data), x) + CountSeq(call'.batch, x)
        /\ call'.op \in {"insert", "load"} =>
              \A x \in AllItems :
                  CountSeq(search(data', CoverQuery), x) = CountSeq(all(data'), x)
      ]_vars

\* a batch of two levels has been loaded into a tree that held an item, in
\* three dimensions
C5_Witness ==
    /\ dimension = 3
    /\ call.op = "load"
    /\ Len(call.batch) > _maxEntries
    /\ Len(all(data)) = Len(call.batch) + 1

(* C6: remove(x) of an item stored in the tree finds it and removes exactly
   one occurrence of it: all() afterwards is all() before minus one x. *)
C6_RemovePresent ==
    [][ (call'.op = "remove" /\ call'.item # null /\ Stored(data, call'.item) > 0)
            => /\ call'.found
               /\ \A x \in AllItems :
                      CountSeq(all(data'), x) =
                          CountSeq(all(data), x) - (IF x = call'.item THEN 1 ELSE 0)
      ]_vars

\* an item stored twice has been removed once from a tree of three levels
C6_Witness ==
    /\ call.op = "remove"
    /\ call.found
    /\ data.height = 3
    /\ Stored(data, call.item) >= 1

(* C7: remove(x) of an item that is not stored (or of a falsy x) raises no
   error and leaves the whole tree as it was: nodes, order of the children,
   heights, leaf flags and boxes. *)
C7_RemoveAbsent ==
    [][ (call'.op = "remove" /\ (call'.item = null \/ Stored(data, call'.item) = 0))
            => (data' = data /\ ~threw' /\ ~call'.found)
      ]_vars

\* item 1 was asked to go from a tree of several levels that holds item 3,
\* another object with the same box, and not item 1
C7_Witness ==
    /\ call.op = "remove"
    /\ call.item = 1
    /\ ~call.found
    /\ ~data.leaf
    /\ Stored(data, 3) > 0

(* C8: no call of insert, load, remove, search, collides, all or clear raises
   an error, on the first tree of the process for its dimension too. *)
C8_NoThrow == ~threw

(* C9: collides(q) is true exactly when search(q) returns something; it is
   false, with no child looked at, when q is disjoint from the root's box. *)
C9_Collides ==
    call.op = "collides" =>
        /\ ret.value = (search(data, call.bbox) # << >>)
        /\ ~Touch(data.bbox, call.bbox) => (~ret.value /\ ret.visited = 0)

\* collides answered true at the first child it looked at, an internal node
\* whose box lies in a query that does not cover the tree
C9_Witness ==
    /\ call.op = "collides"
    /\ ~data.leaf
    /\ ret.value
    /\ ret.visited = 1
    /\ ~contains(dimension, call.bbox, data.bbox)

\* the children of node lie in the order of their minimum on the axis
SortedBy(node, axis) ==
    \A i, j \in DOMAIN node.children :
        i < j => childBBox(node, node.children[i])[axis + 1]
                     <= childBBox(node, node.children[j])[axis + 1]

\* the axes whose total margin is the least of those _allDistMargin returned
MinMarginAxes(margins) ==
    {a \in 0 .. dimension - 1 : \A b \in 0 .. dimension - 1 : margins[a + 1] <= margins[b + 1]}

(* C10: when an overflowing node is split, an axis of minimum total margin is
   selected, and when the split index is chosen (and the node is then cut) the
   children are in the order of their minimum coordinate on that axis. Where
   two axes tie for the minimum, either may be the selected one. *)
C10_SplitAxis ==
    splitTrace.step = "index" =>
        \E axis \in MinMarginAxes(splitTrace.margins) : SortedBy(splitNode, axis)

\* the area of a box
AreaOf(b) ==
    LET prod[i \in 0 .. dimension] ==
            IF i = 0 THEN 1 ELSE prod[i - 1] * (b[dimension + i] - b[i])
    IN  prod[dimension]

\* the least box that covers a and b
CoverOf(a, b) ==
    [k \in 1 .. 2 * dimension |->
        IF k <= dimension
        THEN (IF a[k] <= b[k] THEN a[k] ELSE b[k])
        ELSE (IF a[k] >= b[k] THEN a[k] ELSE b[k])]

\* by how much the box of child c has to grow in area to cover q
EnlargementOf(q, c) == AreaOf(CoverOf(q, c.bbox)) - AreaOf(c.bbox)

\* the child taken at node is one of least enlargement for q
LeastEnlargement(q, node, chosen) ==
    \A i \in DOMAIN node.children :
        EnlargementOf(q, chosen) <= EnlargementOf(q, node.children[i])

\* among the children tied with it on enlargement, the child taken is one of
\* smallest area
SmallestAreaOfTied(q, node, chosen) ==
    \A i \in DOMAIN node.children :
        EnlargementOf(q, node.children[i]) = EnlargementOf(q, chosen)
            => AreaOf(chosen.bbox) <= AreaOf(node.children[i].bbox)

(* C11: at every internal node visited during the insertion descent,
   _chooseSubtree continues into a child of least area enlargement for the
   inserted box, and among the children tied on that least enlargement into one
   of smallest area, whatever the order of the children; the descent stops at a
   leaf or at depth targetLevel, and the path leads from the root down through
   the nodes visited. *)
C11_ChooseSubtree ==
    call.op = "_chooseSubtree" =>
        /\ \A k \in 1 .. Len(ret) :
              LET node == nodeAt(data, SubSeq(ret, 1, k - 1))
              IN  /\ ~node.leaf
                  /\ ret[k] \in DOMAIN node.children
                  /\ LeastEnlargement(call.bbox, node, node.children[ret[k]])
                  /\ SmallestAreaOfTied(call.bbox, node, node.children[ret[k]])
        /\ nodeAt(data, ret).leaf \/ Len(ret) = call.level

====
